---------------------------- MODULE Spec2Model ----------------------------
(***************************************************************************)
(* Model of the three Python analyzers of mcp-optimist:                    *)
(*   src/src/python/performance_analyzer.py                                *)
(*   src/src/python/quality_analyzer.py                                    *)
(*   src/src/python/refactoring_analyzer.py                                *)
(* Each analyzer is one run of analyze_file over one file.  A file is its  *)
(* text (a sequence of lines, each a sequence of characters) and the tree  *)
(* ast.parse builds from it (a sequence of nodes; node 1 is the Module).   *)
(***************************************************************************)
EXTENDS Integers, Sequences, FiniteSets, TLC

VARIABLES file, focus_area, perfOut, qualOut, refOut

vars == <<file, focus_area, perfOut, qualOut, refOut>>

(* ------------------------------ bounds -------------------------------- *)
MaxNodes == 5
MaxFnNodes == 4
MaxHead == 4
MaxMixedNodes == 3

(* ------------------------- generic helpers ---------------------------- *)
RECURSIVE SumSeq(_)
SumSeq(s) == IF s = <<>> THEN 0 ELSE Head(s) + SumSeq(Tail(s))

RECURSIVE Flatten(_)
Flatten(ss) == IF ss = <<>> THEN <<>> ELSE Head(ss) \o Flatten(Tail(ss))

(* ------------------------- the syntax tree ---------------------------- *)
(* A node: kind, parent (0 for the Module), lineno / end_lineno (0 when    *)
(* the node has none), name (FunctionDef), n (len(args.args) of a          *)
(* FunctionDef, len(values) of a BoolOp), op (AugAssign), vtype / ival     *)
(* (the value of a Constant).                                              *)
StmtKinds == {"FunctionDef", "ClassDef", "For", "While", "If", "With", "Try",
              "AugAssign", "Pass"}
ExprKinds == {"BoolOp", "Constant", "Name"}

None == "None"

FuncNames == <<"f1", "f2", "f3", "f4", "f5", "f6", "f7", "f8">>

Children(t, n) == SelectSeq([i \in 1..Len(t) |-> i], LAMBDA i : t[i].parent = n)

(* ast.walk: a deque seeded with the root; popleft, extend with the        *)
(* children, yield -- breadth first.                                       *)
RECURSIVE WalkTodo(_, _)
WalkTodo(t, todo) ==
    IF todo = <<>> THEN <<>>
    ELSE <<Head(todo)>> \o WalkTodo(t, Tail(todo) \o Children(t, Head(todo)))

Walk(t, root) == WalkTodo(t, <<root>>)

(* Source order of the nodes (depth first, parents before children): the  *)
(* order in which the parser meets them in the text.                      *)
RECURSIVE SourceOrder(_, _)
SourceOrder(t, n) ==
    <<n>> \o Flatten([j \in 1..Len(Children(t, n)) |->
                          SourceOrder(t, Children(t, n)[j])])

HasOwnLine(k) == k \in StmtKinds \cup {"ExceptHandler"}

RECURSIVE Ancestors(_, _)
Ancestors(t, n) ==
    IF t[n].parent = 0 THEN {}
    ELSE {t[n].parent} \cup Ancestors(t, t[n].parent)

Subtree(t, n) == {m \in 1..Len(t) : m = n \/ n \in Ancestors(t, m)}

(* The positions the parser gives the nodes: a statement or handler sits  *)
(* on the next line of the text, an expression on its statement's line;   *)
(* a definition ends on the last line of its subtree.                     *)
RECURSIVE LinesAlong(_, _, _, _)
LinesAlong(t, order, line, acc) ==
    IF order = <<>> THEN acc
    ELSE LET here == IF HasOwnLine(t[Head(order)].kind) THEN line + 1 ELSE line
         IN  LinesAlong(t, Tail(order), here, [acc EXCEPT ![Head(order)] = here])

RECURSIVE EndLine(_, _, _)
EndLine(t, lineno, n) ==
    LET kids == Children(t, n)
    IN  IF kids = <<>> THEN lineno[n] ELSE EndLine(t, lineno, kids[Len(kids)])

Positioned(t) ==
    LET lineno == LinesAlong(t, SourceOrder(t, 1), 0, [i \in 1..Len(t) |-> 0])
    IN  [i \in 1..Len(t) |->
            [t[i] EXCEPT !.lineno = lineno[i],
                         !.end_lineno = EndLine(t, lineno, i),
                         !.name = IF t[i].kind = "FunctionDef" THEN FuncNames[i] ELSE None]]

Node(kind, n, op, vtype, ival) ==
    [kind |-> kind, parent |-> 0, lineno |-> 0, end_lineno |-> 0, name |-> None,
     n |-> n, op |-> op, vtype |-> vtype, ival |-> ival]

Plain(kind) == Node(kind, 0, "", "", 0)

(* What the grammar lets sit under what. *)
CanHold(pk, ck) ==
    CASE ck = "Module" -> FALSE
      [] ck = "ExceptHandler" -> pk = "Try"
      [] ck \in ExprKinds -> pk \in {"If", "While", "AugAssign", "BoolOp"}
      [] OTHER -> pk \in {"Module", "FunctionDef", "ClassDef", "For", "While", "If",
                          "With", "Try", "ExceptHandler"}

(* Children come in field order: expressions (test, iter, value) before   *)
(* the body, the body of a try before its handlers; nodes are numbered    *)
(* breadth first, so parents never decrease.                              *)
CanAppend(t, p, c) ==
    /\ CanHold(t[p].kind, c.kind)
    /\ p >= t[Len(t)].parent
    /\ LET fresh == t[Len(t)].parent # p
           lastk == IF fresh THEN "" ELSE t[Len(t)].kind
       IN  /\ c.kind \in ExprKinds => lastk \notin StmtKinds \cup {"ExceptHandler"}
           /\ c.kind \in StmtKinds => lastk # "ExceptHandler"
           /\ t[p].kind = "BoolOp" =>
                  Cardinality({i \in 1..Len(t) : t[i].parent = p}) < t[p].n
           /\ t[p].kind = "AugAssign" => fresh

RECURSIVE Shapes(_, _)
Shapes(templates, size) ==
    IF size = 1 THEN {<<Plain("Module")>>}
    ELSE LET smaller == Shapes(templates, size - 1)
         IN  {Append(t, [c EXCEPT !.parent = p]) :
                  <<t, p, c>> \in {x \in smaller \X (1..(size - 1)) \X templates :
                                       CanAppend(x[1], x[2], x[3])}}

RECURSIVE ShapesUpTo(_, _)
ShapesUpTo(templates, maxSize) ==
    IF maxSize = 0 THEN {}
    ELSE Shapes(templates, maxSize) \cup ShapesUpTo(templates, maxSize - 1)

Trees(templates, maxSize) == {Positioned(t) : t \in ShapesUpTo(templates, maxSize)}


(* ------------------------------ the file ------------------------------ *)
(* status: what open / read / ast.parse do with the path.                  *)
Failures == {"missing", "undecodable", "syntax_error"}

(* str(e) of the exception open, read or ast.parse raises. *)
ErrorMessage(status) ==
    CASE status = "missing" -> "[Errno 2] No such file or directory"
      [] status = "undecodable" -> "'utf-8' codec can't decode byte"
      [] status = "syntax_error" -> "invalid syntax"
      [] OTHER -> ""

NumLines(t) == Cardinality({i \in 1..Len(t) : HasOwnLine(t[i].kind)})

(* "\n".join(lines) *)
RECURSIVE Join(_)
Join(lines) ==
    IF lines = <<>> THEN <<>>
    ELSE IF Len(lines) = 1 THEN lines[1]
    ELSE lines[1] \o <<"\n">> \o Join(Tail(lines))

(* A parsed file whose text has one statement per line of the tree. *)
ParsedFile(t) ==
    [status |-> "ok", content |-> Join([i \in 1..NumLines(t) |-> <<"a">>]), tree |-> t]

(* A file that is not read has no text; one that is read but not parsed   *)
(* has its text and no tree.                                               *)
FailedFile(status, content) ==
    [status |-> status,
     content |-> IF status = "syntax_error" THEN content ELSE <<>>,
     tree |-> <<>>]

(* ----------------------- performance_analyzer.py ---------------------- *)
ValueOf(t, n) == IF Children(t, n) = <<>> THEN 0 ELSE Children(t, n)[1]

(* isinstance(child, ast.AugAssign) and isinstance(child.op, ast.Add) and  *)
(* hasattr(child.value, 'value') and isinstance(child.value.value, str)    *)
IsStringConcat(t, child) ==
    /\ t[child].kind = "AugAssign"
    /\ t[child].op = "Add"
    /\ ValueOf(t, child) # 0
    /\ t[ValueOf(t, child)].kind = "Constant"
    /\ t[ValueOf(t, child)].vtype = "str"

PerfVisit(t, acc, node) ==
    IF t[node].kind = "FunctionDef" THEN
        [acc EXCEPT !.functions =
            Append(@, [name |-> t[node].name, line |-> t[node].lineno,
                       params |-> t[node].n])]
    ELSE IF t[node].kind \in {"For", "While"} THEN
        LET depth == Len(acc.loop_stack) + 1
            pushed == Append(acc.loop_stack, depth)
            found == SelectSeq(Walk(t, node), LAMBDA c : IsStringConcat(t, c))
        IN  [acc EXCEPT
                !.loops = Append(@, [type |-> IF t[node].kind = "For" THEN "for" ELSE "while",
                                     depth |-> depth, line |-> t[node].lineno,
                                     column |-> 0]),
                !.string_concat_issues =
                    @ \o [j \in 1..Len(found) |->
                             [line |-> t[found[j]].lineno, variable |-> "string_var"]],
                !.loop_stack = SubSeq(pushed, 1, Len(pushed) - 1)]
    ELSE acc

RECURSIVE PerfLoop(_, _, _)
PerfLoop(t, acc, todo) ==
    IF todo = <<>> THEN acc
    ELSE PerfLoop(t, PerfVisit(t, acc, Head(todo)), Tail(todo))

PerfResult(f) ==
    LET acc == PerfLoop(f.tree,
                        [loops |-> <<>>, functions |-> <<>>,
                         string_concat_issues |-> <<>>, loop_stack |-> <<>>],
                        Walk(f.tree, 1))
    IN  [error |-> "", loops |-> acc.loops, functions |-> acc.functions,
         stringConcatIssues |-> acc.string_concat_issues]

PerfError(f) ==
    [error |-> ErrorMessage(f.status), loops |-> <<>>, functions |-> <<>>,
     stringConcatIssues |-> <<>>]

PerformanceAnalyze ==
    /\ perfOut = <<>>
    /\ perfOut' = Append(perfOut, IF file.status = "ok" THEN PerfResult(file) ELSE PerfError(file))
    /\ UNCHANGED <<file, focus_area, qualOut, refOut>>

PerfTemplates ==
    {Node("FunctionDef", 2, "", "", 0), Plain("For"), Plain("While"),
     Node("AugAssign", 0, "Add", "", 0),
     Node("Constant", 0, "", "str", 0), Node("Constant", 0, "", "int", 5)}

PerfFiles(maxSize) ==
    {ParsedFile(t) : t \in Trees(PerfTemplates, maxSize)}
        \cup {FailedFile(s, <<"a", "(">>) : s \in Failures}

InitPerformance ==
    /\ file \in PerfFiles(MaxNodes)
    /\ focus_area = "all"
    /\ perfOut = <<>>
    /\ qualOut = <<>>
    /\ refOut = <<>>

SpecPerformance == InitPerformance /\ [][PerformanceAnalyze]_vars

(* ------------------------- quality_analyzer.py ------------------------ *)
RECURSIVE CyclomaticLoop(_, _, _)
CyclomaticLoop(t, complexity, todo) ==
    IF todo = <<>> THEN complexity
    ELSE LET child == t[Head(todo)]
             next == IF child.kind \in {"If", "For", "While", "With", "Try", "ExceptHandler"}
                         THEN complexity + 1
                     ELSE IF child.kind = "BoolOp" /\ child.n > 1
                         THEN complexity + (child.n - 1)
                     ELSE complexity
         IN  CyclomaticLoop(t, next, Tail(todo))

(* Every boolean combination counted once, whatever its operand count. *)
CyclomaticFlatBoolOp(t, node) ==
    1 + Len(SelectSeq(Walk(t, node),
              LAMBDA c : t[c].kind \in {"If", "For", "While", "With", "Try",
                                        "ExceptHandler", "BoolOp"}))

calculate_cyclomatic_complexity(t, node) == CyclomaticLoop(t, 1, Walk(t, node))

calculate_cognitive_complexity(t, node) ==
    Len(SelectSeq(Walk(t, node), LAMBDA c : t[c].kind \in {"If", "For", "While", "Try"}))

QualFunction(t, node) ==
    LET cyclomatic == calculate_cyclomatic_complexity(t, node)
    IN  [name |-> t[node].name, line |-> t[node].lineno, cyclomatic |-> cyclomatic,
         cognitive |-> calculate_cognitive_complexity(t, node), nestingDepth |-> 0,
         decisionPoints |-> cyclomatic - 1]

QualFunctions(t) ==
    LET defs == SelectSeq(Walk(t, 1), LAMBDA n : t[n].kind = "FunctionDef")
    IN  [j \in 1..Len(defs) |-> QualFunction(t, defs[j])]

(* The suite of an except clause always holds a statement in a parsed      *)
(* tree (statements other than StmtKinds are not kept as nodes).           *)
HandlerBodyEmpty(t, h) == FALSE

Handlers(t, n) == SelectSeq(Children(t, n), LAMBDA c : t[c].kind = "ExceptHandler")

Smell(type, line, subject, amount, severity) ==
    [type |-> type, line |-> line, subject |-> subject, amount |-> amount,
     severity |-> severity]

(* One pass of the smell loop over a node; the description of a finding is *)
(* kept as its parts (the name or "" and the number it prints).            *)
SmellVisit(t, smells, n) ==
    IF t[n].kind = "FunctionDef" THEN
        LET lines == t[n].end_lineno - t[n].lineno
            s1 == IF t[n].n > 5
                      THEN [smells EXCEPT !.longParameterLists =
                               Append(@, Smell("LONG_PARAMETER_LIST", t[n].lineno,
                                               t[n].name, t[n].n, "medium"))]
                      ELSE smells
        IN  IF t[n].end_lineno # 0 /\ lines > 50
                THEN [s1 EXCEPT !.longMethods =
                         Append(@, Smell("LONG_METHOD", t[n].lineno, t[n].name,
                                         lines, "medium"))]
                ELSE s1
    ELSE IF t[n].kind = "Try" THEN
        LET empty == SelectSeq(Handlers(t, n), LAMBDA h : HandlerBodyEmpty(t, h))
        IN  [smells EXCEPT !.emptyCatches =
                @ \o [j \in 1..Len(empty) |->
                         Smell("EMPTY_CATCH", t[empty[j]].lineno, "", 0, "low")]]
    ELSE IF t[n].kind = "Constant" /\ t[n].vtype = "int" /\ t[n].ival > 10 THEN
        [smells EXCEPT !.magicNumbers =
            Append(@, Smell("MAGIC_NUMBER", t[n].lineno, "", t[n].ival, "low"))]
    ELSE smells

RECURSIVE SmellLoop(_, _, _)
SmellLoop(t, smells, todo) ==
    IF todo = <<>> THEN smells
    ELSE SmellLoop(t, SmellVisit(t, smells, Head(todo)), Tail(todo))

NoSmells ==
    [godObjects |-> <<>>, longParameterLists |-> <<>>, longMethods |-> <<>>,
     magicNumbers |-> <<>>, emptyCatches |-> <<>>]

(* max(iterable, key=...): the first of the largest. *)
RECURSIVE MaxByCyclomatic(_, _)
MaxByCyclomatic(best, fs) ==
    IF fs = <<>> THEN best
    ELSE MaxByCyclomatic(IF Head(fs).cyclomatic > best.cyclomatic THEN Head(fs) ELSE best,
                         Tail(fs))

(* A quotient sum / len is kept as the pair; 0 is 0 / 1. *)
Mean(total, count) == IF count = 0 THEN [num |-> 0, den |-> 1]
                      ELSE [num |-> total, den |-> count]

Report(error, functions, smells) ==
    [error |-> error,
     complexity |->
        [functions |-> functions,
         totalFunctions |-> Len(functions),
         averageComplexity |->
             Mean(SumSeq([j \in 1..Len(functions) |-> functions[j].cyclomatic]),
                  Len(functions)),
         maxComplexity |->
             IF functions = <<>> THEN 0
             ELSE MaxByCyclomatic(Head(functions), Tail(functions)).cyclomatic,
         averageCognitive |->
             Mean(SumSeq([j \in 1..Len(functions) |-> functions[j].cognitive]),
                  Len(functions)),
         totalDecisionPoints |->
             SumSeq([j \in 1..Len(functions) |-> functions[j].decisionPoints]),
         mostComplexFunction |->
             IF functions = <<>> THEN None
             ELSE MaxByCyclomatic(Head(functions), Tail(functions)).name],
     smells |->
        [godObjects |-> smells.godObjects,
         longParameterLists |-> smells.longParameterLists,
         longMethods |-> smells.longMethods,
         magicNumbers |-> smells.magicNumbers,
         emptyCatches |-> smells.emptyCatches,
         classMetrics |-> [total |-> 0, large |-> 0],
         functionMetrics |-> [total |-> Len(functions), long |-> Len(smells.longMethods)]]]

QualResult(f) ==
    Report("", QualFunctions(f.tree), SmellLoop(f.tree, NoSmells, Walk(f.tree, 1)))

QualError(f) == Report(ErrorMessage(f.status), <<>>, NoSmells)

QualityAnalyze ==
    /\ qualOut = <<>>
    /\ qualOut' = Append(qualOut, IF file.status = "ok" THEN QualResult(file)
                                  ELSE QualError(file))
    /\ UNCHANGED <<file, focus_area, perfOut, refOut>>

(* Trees to measure complexity on, and trees that carry literals. *)
ComplexityTemplates ==
    {Node("FunctionDef", 2, "", "", 0), Plain("ClassDef"), Plain("If"), Plain("For"),
     Plain("While"), Plain("With"), Plain("Try"), Plain("ExceptHandler"),
     Node("BoolOp", 2, "", "", 0), Node("BoolOp", 3, "", "", 0)}

LiteralTemplates ==
    {Node("FunctionDef", 6, "", "", 0), Plain("If"), Node("AugAssign", 0, "Add", "", 0),
     Node("Constant", 0, "", "str", 0)}
        \cup {Node("Constant", 0, "", "int", v) : v \in {0, 1, 2, 10, 11, 100, 1000}}

QualFiles(maxSize) ==
    {ParsedFile(t) : t \in Trees(ComplexityTemplates, maxSize)
                             \cup Trees(LiteralTemplates, maxSize)}
        \cup {FailedFile(s, <<"a", "(">>) : s \in Failures}

InitQuality ==
    /\ file \in QualFiles(MaxFnNodes)
    /\ focus_area = "all"
    /\ perfOut = <<>>
    /\ qualOut = <<>>
    /\ refOut = <<>>

SpecQuality == InitQuality /\ [][QualityAnalyze]_vars

(* ----------------------- refactoring_analyzer.py ---------------------- *)
IsDigit(c) == c \in {"0", "1", "2", "3", "4", "5", "6", "7", "8", "9"}
IsSpace(c) == c \in {" ", "\t"}
IsWord(c) == IsDigit(c) \/ c \in {"a", "b", "x", "_"}

DigitValue(c) ==
    CASE c = "0" -> 0 [] c = "1" -> 1 [] c = "2" -> 2 [] c = "3" -> 3 [] c = "4" -> 4
      [] c = "5" -> 5 [] c = "6" -> 6 [] c = "7" -> 7 [] c = "8" -> 8 [] c = "9" -> 9

(* int(text) of a run of digits *)
RECURSIVE ToInt(_)
ToInt(digits) ==
    IF digits = <<>> THEN 0
    ELSE 10 * ToInt(SubSeq(digits, 1, Len(digits) - 1)) + DigitValue(digits[Len(digits)])

(* content.split('\n'): the pieces between the newlines, one more piece  *)
(* than there are newlines.                                                *)
Split(content) ==
    LET breaks == SelectSeq([i \in 1..Len(content) |-> i],
                            LAMBDA i : content[i] = "\n")
    IN  [k \in 1..(Len(breaks) + 1) |->
            SubSeq(content,
                   IF k = 1 THEN 1 ELSE breaks[k - 1] + 1,
                   IF k = Len(breaks) + 1 THEN Len(content) ELSE breaks[k] - 1)]

RECURSIVE LStrip(_)
LStrip(line) ==
    IF line # <<>> /\ IsSpace(Head(line)) THEN LStrip(Tail(line)) ELSE line

RECURSIVE RStrip(_)
RStrip(line) ==
    IF line # <<>> /\ IsSpace(line[Len(line)])
        THEN RStrip(SubSeq(line, 1, Len(line) - 1)) ELSE line

Strip(line) == RStrip(LStrip(line))

StartsWith(line, prefix) ==
    Len(line) >= Len(prefix) /\ SubSeq(line, 1, Len(prefix)) = prefix

IsCommentLine(line) == StartsWith(Strip(line), <<"#">>)

(* \b just before position pos (1 .. Len + 1) *)
WordAt(line, pos) == pos >= 1 /\ pos <= Len(line) /\ IsWord(line[pos])
Boundary(line, pos) == WordAt(line, pos - 1) # WordAt(line, pos)

RECURSIVE DigitRun(_, _)
DigitRun(line, pos) ==
    IF pos <= Len(line) /\ IsDigit(line[pos]) THEN 1 + DigitRun(line, pos + 1) ELSE 0

(* Greedy \d{least,} followed by \b: the longest count that leaves a      *)
(* boundary behind it, 0 when none does.                                   *)
RECURSIVE Backtrack(_, _, _, _)
Backtrack(line, pos, count, least) ==
    IF count < least THEN 0
    ELSE IF Boundary(line, pos + count) THEN count
    ELSE Backtrack(line, pos, count - 1, least)

(* The length matched at pos by \b\d{3,}\b, else by \b[1-9]\d{2,}\b. *)
MatchAt(line, pos) ==
    IF ~Boundary(line, pos) THEN 0
    ELSE LET first == Backtrack(line, pos, DigitRun(line, pos), 3)
         IN  IF first > 0 THEN first
             ELSE IF pos <= Len(line) /\ IsDigit(line[pos]) /\ line[pos] # "0"
                 THEN LET rest == Backtrack(line, pos + 1, DigitRun(line, pos + 1), 2)
                      IN  IF rest > 0 THEN 1 + rest ELSE 0
             ELSE 0

(* re.search: the match at the leftmost position that has one, as its    *)
(* text; <<>> when there is none.                                          *)
Search(line) ==
    LET starts == {pos \in 1..Len(line) : MatchAt(line, pos) > 0}
        leftmost == CHOOSE pos \in starts : \A other \in starts : pos <= other
    IN  IF starts = {} THEN <<>>
        ELSE SubSeq(line, leftmost, leftmost + MatchAt(line, leftmost) - 1)

(* The rightmost match instead of the leftmost. *)
MagicSearchRightmost(line) ==
    LET starts == {pos \in 1..Len(line) : MatchAt(line, pos) > 0}
        rightmost == CHOOSE pos \in starts : \A other \in starts : pos >= other
    IN  IF starts = {} THEN <<>>
        ELSE SubSeq(line, rightmost, rightmost + MatchAt(line, rightmost) - 1)

MagicSearch(line) == Search(line)

MagicAllowed == {0, 1, -1, 2, 10, 100, 1000}

Opportunity(type, subject, amount, priority, line) ==
    [type |-> type, subject |-> subject, amount |-> amount, priority |-> priority,
     line |-> line]

(* A long function reported with priority high. *)
FunctionOpportunitiesHigh(t, n) ==
    LET lines_count == t[n].end_lineno - t[n].lineno
    IN  (IF t[n].end_lineno # 0 /\ lines_count > 30
             THEN <<Opportunity("LONG_FUNCTION", t[n].name, lines_count, "high",
                                t[n].lineno)>>
             ELSE <<>>)
        \o (IF t[n].n > 5
                THEN <<Opportunity("LONG_PARAMETER_LIST", t[n].name, t[n].n, "medium",
                                   t[n].lineno)>>
                ELSE <<>>)

(* The opportunities of one function definition. *)
FunctionOpportunities(t, n) ==
    LET lines_count == t[n].end_lineno - t[n].lineno
    IN  (IF t[n].end_lineno # 0 /\ lines_count > 30
             THEN <<Opportunity("LONG_FUNCTION", t[n].name, lines_count, "medium",
                                t[n].lineno)>>
             ELSE <<>>)
        \o (IF t[n].n > 5
                THEN <<Opportunity("LONG_PARAMETER_LIST", t[n].name, t[n].n, "medium",
                                   t[n].lineno)>>
                ELSE <<>>)

(* The long-line test off by one: >= 100 instead of > 100. *)
LineOpportunitiesFrom100(line, i) ==
    LET magic_match == MagicSearch(line)
    IN  (IF Len(line) >= 100 /\ ~IsCommentLine(line)
             THEN <<Opportunity("LONG_LINE", "", Len(line), "low", i + 1)>>
             ELSE <<>>)
        \o (IF magic_match # <<>> /\ ~IsCommentLine(line)
                   /\ ToInt(magic_match) \notin MagicAllowed
                THEN <<Opportunity("MAGIC_NUMBER", "", ToInt(magic_match), "low", i + 1)>>
                ELSE <<>>)

(* The opportunities of the line at index i (0-based), reported at i + 1. *)
LineOpportunities(line, i) ==
    LET magic_match == MagicSearch(line)
    IN  (IF Len(line) > 100 /\ ~IsCommentLine(line)
             THEN <<Opportunity("LONG_LINE", "", Len(line), "low", i + 1)>>
             ELSE <<>>)
        \o (IF magic_match # <<>> /\ ~IsCommentLine(line)
                   /\ ToInt(magic_match) \notin MagicAllowed
                THEN <<Opportunity("MAGIC_NUMBER", "", ToInt(magic_match), "low", i + 1)>>
                ELSE <<>>)

Detect(t, lines) ==
    LET defs == SelectSeq(Walk(t, 1), LAMBDA n : t[n].kind = "FunctionDef")
    IN  Flatten([j \in 1..Len(defs) |-> FunctionOpportunities(t, defs[j])])
        \o Flatten([j \in 1..Len(lines) |-> LineOpportunities(lines[j], j - 1)])

(* The readability area without the magic numbers. *)
FocusFilterNarrow(opportunities, focus) ==
    IF focus # "all" THEN
        IF focus = "performance" THEN
            SelectSeq(opportunities, LAMBDA o : o.type \in {"LONG_FUNCTION"})
        ELSE IF focus = "maintainability" THEN
            SelectSeq(opportunities, LAMBDA o :
                o.type \in {"LONG_FUNCTION", "LONG_PARAMETER_LIST", "MAGIC_NUMBER"})
        ELSE IF focus = "readability" THEN
            SelectSeq(opportunities, LAMBDA o : o.type \in {"LONG_LINE"})
        ELSE opportunities
    ELSE opportunities

FocusFilter(opportunities, focus) ==
    IF focus # "all" THEN
        IF focus = "performance" THEN
            SelectSeq(opportunities, LAMBDA o : o.type \in {"LONG_FUNCTION"})
        ELSE IF focus = "maintainability" THEN
            SelectSeq(opportunities, LAMBDA o :
                o.type \in {"LONG_FUNCTION", "LONG_PARAMETER_LIST", "MAGIC_NUMBER"})
        ELSE IF focus = "readability" THEN
            SelectSeq(opportunities, LAMBDA o : o.type \in {"LONG_LINE", "MAGIC_NUMBER"})
        ELSE opportunities
    ELSE opportunities

RefReport(error, opportunities, focus) ==
    [error |-> error,
     opportunities |-> opportunities,
     totalOpportunities |-> Len(opportunities),
     priorityBreakdown |->
        [high |-> Len(SelectSeq(opportunities, LAMBDA o : o.priority = "high")),
         medium |-> Len(SelectSeq(opportunities, LAMBDA o : o.priority = "medium")),
         low |-> Len(SelectSeq(opportunities, LAMBDA o : o.priority = "low"))],
     focusArea |-> focus]

RefResult(f, focus) ==
    RefReport("", FocusFilter(Detect(f.tree, Split(f.content)), focus), focus)

(* The error report keeping what the lines read before the failure gave. *)
RefErrorKeepsLines(f, focus) ==
    LET lines == Split(f.content)
    IN  RefReport(ErrorMessage(f.status),
                  FocusFilter(Flatten([j \in 1..Len(lines) |->
                                          LineOpportunities(lines[j], j - 1)]), focus),
                  focus)

RefError(f, focus) ==
    [error |-> ErrorMessage(f.status), opportunities |-> <<>>, totalOpportunities |-> 0,
     priorityBreakdown |-> [high |-> 0, medium |-> 0, low |-> 0], focusArea |-> focus]

RefactoringAnalyze ==
    /\ refOut = <<>>
    /\ refOut' = Append(refOut, IF file.status = "ok" THEN RefResult(file, focus_area)
                                ELSE RefError(file, focus_area))
    /\ UNCHANGED <<file, focus_area, perfOut, qualOut>>

(* --------------------- inputs of the refactoring run ------------------ *)
Alphabet == {" ", "#", "a", "0", "1"}

RECURSIVE Strings(_)
Strings(k) ==
    IF k = 0 THEN {<<>>}
    ELSE Strings(k - 1) \cup {Append(w, c) : w \in Strings(k - 1), c \in Alphabet}

Pad(c, k) == [i \in 1..k |-> c]

(* What follows the head of a line: nothing, a second number, or filler   *)
(* that brings the line to about a hundred characters.                    *)
Tails == {<<>>, <<" ", "1", "1", "1">>, <<" ", "1", "0", "0">>, Pad("a", 96), Pad("a", 97)}

SomeLines(maxHead) == {h \o tl : h \in Strings(maxHead), tl \in Tails}

FewLines ==
    {<<"a">>, Pad("a", 101), <<"1", "1", "1">>, <<"1", "1", "1", " ">> \o Pad("a", 97),
     <<"#", "1", "1", "1">> \o Pad("a", 97)}

Focuses == {"all", "performance", "maintainability", "readability", "security"}

(* Function definitions at module level: where each starts, how many      *)
(* lines it spans and how many parameters it has.                         *)
Def(lineno, span, n) == [lineno |-> lineno, end_lineno |-> lineno + span, n |-> n]

DefChoices ==
    {<<>>}
        \cup {<<Def(1, span, n)>> : span \in {30, 31}, n \in {5, 6}}
        \cup {<<Def(1, 31, 6), Def(33, span, n)>> : span \in {30, 31}, n \in {5, 6}}

DefTree(defs) ==
    <<Plain("Module")>>
        \o [i \in 1..Len(defs) |->
               [Node("FunctionDef", defs[i].n, "", "", 0) EXCEPT
                    !.parent = 1, !.lineno = defs[i].lineno,
                    !.end_lineno = defs[i].end_lineno, !.name = FuncNames[i]]]

(* The text: the given lines first, then one short line per remaining     *)
(* line of the definitions.                                                *)
TextOf(first, defs) ==
    LET last == IF defs = <<>> THEN 0 ELSE defs[Len(defs)].end_lineno
    IN  Join(first \o [i \in 1..(IF last > Len(first) THEN last - Len(first) ELSE 0) |->
                           <<"a">>])

TextFile(first, defs) ==
    [status |-> "ok", content |-> TextOf(first, defs), tree |-> DefTree(defs)]

LineRuns(maxHead) == {<<TextFile(<<l>>, <<>>), "all">> : l \in SomeLines(maxHead)}

FocusRuns(focuses) ==
    {<<TextFile(<<l1, l2>>, defs), fa>> :
        l1 \in FewLines, l2 \in FewLines, defs \in DefChoices, fa \in focuses}

FailedRuns ==
    {<<FailedFile(s, Join(<<l>>)), fa>> : s \in Failures, l \in FewLines, fa \in Focuses}

InitRefactoring ==
    /\ \E run \in LineRuns(MaxHead) \cup FocusRuns(Focuses) \cup FailedRuns :
           file = run[1] /\ focus_area = run[2]
    /\ perfOut = <<>>
    /\ qualOut = <<>>
    /\ refOut = <<>>

SpecRefactoring == InitRefactoring /\ [][RefactoringAnalyze]_vars

(* ------------------- the three analyzers on one file ------------------ *)
MixedTemplates ==
    {Node("FunctionDef", 6, "", "", 0), Plain("For"), Plain("If"),
     Node("AugAssign", 0, "Add", "", 0), Node("Constant", 0, "", "str", 0),
     Node("Constant", 0, "", "int", 10), Node("Constant", 0, "", "int", 11),
     Node("Constant", 0, "", "int", 1000)}

TreeRuns(maxSize) ==
    {<<ParsedFile(t), fa>> : t \in Trees(MixedTemplates, maxSize),
                             fa \in {"all", "readability"}}

Init ==
    /\ \E run \in TreeRuns(MaxMixedNodes) \cup FocusRuns({"all", "maintainability"})
                     \cup FailedRuns :
           file = run[1] /\ focus_area = run[2]
    /\ perfOut = <<>>
    /\ qualOut = <<>>
    /\ refOut = <<>>

Next == PerformanceAnalyze \/ QualityAnalyze \/ RefactoringAnalyze

Spec == Init /\ [][Next]_vars

(* ============================ the claims ============================== *)
Parsed == file.status = "ok"

IsLoop(t, n) == t[n].kind \in {"For", "While"}

EnclosingLoops(t, n) == {a \in Ancestors(t, n) : IsLoop(t, a)}

(* The statement (or handler) that sits on a line. *)
NodeAtLine(t, line) ==
    CHOOSE n \in 1..Len(t) : HasOwnLine(t[n].kind) /\ t[n].lineno = line

(* C1: in the performance report the depth of every for/while loop is 1   *)
(* plus the number of for/while loops that enclose it.                    *)
C1_LoopDepth ==
    (Parsed /\ perfOut # <<>>) =>
        \A i \in 1..Len(perfOut[1].loops) :
            perfOut[1].loops[i].depth =
                1 + Cardinality(EnclosingLoops(file.tree,
                                               NodeAtLine(file.tree, perfOut[1].loops[i].line)))

MagicExempt == {0, 1, 2, 10, 100, 1000}

(* C2: no magic-number finding of the quality report or of the            *)
(* refactoring report carries a value in {0, 1, 2, 10, 100, 1000}.        *)
C2_NoExemptMagic ==
    /\ (Parsed /\ qualOut # <<>>) =>
           \A i \in 1..Len(qualOut[1].smells.magicNumbers) :
               qualOut[1].smells.magicNumbers[i].amount \notin MagicExempt
    /\ (Parsed /\ refOut # <<>>) =>
           \A i \in 1..Len(refOut[1].opportunities) :
               refOut[1].opportunities[i].type = "MAGIC_NUMBER" =>
                   refOut[1].opportunities[i].amount \notin MagicExempt

(* The entry with the lowest line among those of the highest cyclomatic   *)
(* complexity.                                                             *)
FirstDeclaredMostComplex(fs) ==
    CHOOSE f \in {fs[i] : i \in 1..Len(fs)} :
        /\ \A g \in {fs[i] : i \in 1..Len(fs)} : g.cyclomatic <= f.cyclomatic
        /\ \A g \in {fs[i] : i \in 1..Len(fs)} :
               g.cyclomatic = f.cyclomatic => f.line <= g.line

(* C3: mostComplexFunction is the name of the function of the lowest      *)
(* declaration line among those of the highest cyclomatic complexity,     *)
(* and null when there is no function.                                    *)
C3_MostComplexIsFirstDeclared ==
    (Parsed /\ qualOut # <<>>) =>
        LET c == qualOut[1].complexity
        IN  c.mostComplexFunction =
                IF c.functions = <<>> THEN None
                ELSE FirstDeclaredMostComplex(c.functions).name

EmptyMean == [num |-> 0, den |-> 1]

PerfErrorShaped(out) ==
    /\ Len(out) = 1
    /\ out[1].error # ""
    /\ out[1].loops = <<>> /\ out[1].functions = <<>> /\ out[1].stringConcatIssues = <<>>

QualErrorShaped(out) ==
    /\ Len(out) = 1
    /\ out[1].error # ""
    /\ out[1].complexity =
           [functions |-> <<>>, totalFunctions |-> 0, averageComplexity |-> EmptyMean,
            maxComplexity |-> 0, averageCognitive |-> EmptyMean,
            totalDecisionPoints |-> 0, mostComplexFunction |-> None]
    /\ out[1].smells =
           [godObjects |-> <<>>, longParameterLists |-> <<>>, longMethods |-> <<>>,
            magicNumbers |-> <<>>, emptyCatches |-> <<>>,
            classMetrics |-> [total |-> 0, large |-> 0],
            functionMetrics |-> [total |-> 0, long |-> 0]]

RefErrorShaped(out) ==
    /\ Len(out) = 1
    /\ out[1].error # ""
    /\ out[1].opportunities = <<>>
    /\ out[1].totalOpportunities = 0
    /\ out[1].priorityBreakdown = [high |-> 0, medium |-> 0, low |-> 0]
    /\ out[1].focusArea = focus_area

DecisionKinds == {"If", "For", "While", "With", "Try", "ExceptHandler"}

RECURSIVE SumOver(_, _)
SumOver(S, f) ==
    IF S = {} THEN 0
    ELSE LET x == CHOOSE y \in S : TRUE IN f[x] + SumOver(S \ {x}, f)

(* 1 + the decision nodes of the subtree + (operands - 1) of every         *)
(* boolean combination of the subtree.                                     *)
SubtreeComplexity(t, n) ==
    1 + Cardinality({m \in Subtree(t, n) : t[m].kind \in DecisionKinds})
      + SumOver({m \in Subtree(t, n) : t[m].kind = "BoolOp"},
                [m \in 1..Len(t) |-> t[m].n - 1])

FunctionDefs(t) == {n \in 1..Len(t) : t[n].kind = "FunctionDef"}

(* C5: every function definition has one entry, whose cyclomatic is 1 +   *)
(* the if/for/while/with/try/except nodes of its subtree + (operands - 1) *)
(* per boolean combination, and whose decisionPoints is cyclomatic - 1.   *)
C5_Cyclomatic ==
    (Parsed /\ qualOut # <<>>) =>
        LET fs == qualOut[1].complexity.functions
        IN  /\ Len(fs) = Cardinality(FunctionDefs(file.tree))
            /\ \A n \in FunctionDefs(file.tree) :
                   \E i \in 1..Len(fs) :
                       /\ fs[i].line = file.tree[n].lineno
                       /\ fs[i].name = file.tree[n].name
                       /\ fs[i].cyclomatic = SubtreeComplexity(file.tree, n)
                       /\ fs[i].decisionPoints = fs[i].cyclomatic - 1

C5_Witness ==
    /\ Parsed /\ qualOut # <<>>
    /\ \E n \in FunctionDefs(file.tree) :
           /\ \E m \in Subtree(file.tree, n) :
                  /\ m # n /\ file.tree[m].kind = "FunctionDef"
                  /\ \E d \in Subtree(file.tree, m) : file.tree[d].kind \in DecisionKinds
           /\ \E i \in 1..Len(qualOut[1].complexity.functions) :
                  /\ qualOut[1].complexity.functions[i].line = file.tree[n].lineno
                  /\ qualOut[1].complexity.functions[i].cyclomatic = 2

AllTypes == {"LONG_FUNCTION", "LONG_PARAMETER_LIST", "LONG_LINE", "MAGIC_NUMBER"}

KeptTypes(focus) ==
    CASE focus = "performance" -> {"LONG_FUNCTION"}
      [] focus = "maintainability" -> {"LONG_FUNCTION", "LONG_PARAMETER_LIST", "MAGIC_NUMBER"}
      [] focus = "readability" -> {"LONG_LINE", "MAGIC_NUMBER"}
      [] OTHER -> AllTypes

(* What the run prints under focus 'all'. *)
AllList == RefResult(file, "all").opportunities

(* C6: the opportunity list under a focus area is the 'all' list without  *)
(* the entries whose type is outside the area's type set, order and       *)
(* fields kept; an unrecognized focus gives the 'all' list.                *)
C6_FocusIsFilterOfAll ==
    (Parsed /\ refOut # <<>>) =>
        refOut[1].opportunities =
            SelectSeq(AllList, LAMBDA o : o.type \in KeptTypes(focus_area))

C6_Witness ==
    /\ Parsed /\ refOut # <<>>
    /\ focus_area = "readability"
    /\ {AllList[i].type : i \in 1..Len(AllList)} = AllTypes
    /\ Len(refOut[1].opportunities) < Len(AllList)
    /\ refOut[1].opportunities # <<>>

(* The first character of a line that is not whitespace is '#'. *)
TrimmedStartsWithHash(line) ==
    \E k \in 1..Len(line) :
        line[k] = "#" /\ \A j \in 1..(k - 1) : line[j] \in {" ", "\t"}

SourceLines == Split(file.content)

Flagged(type, lineNo) ==
    \E k \in 1..Len(refOut[1].opportunities) :
        refOut[1].opportunities[k].type = type /\ refOut[1].opportunities[k].line = lineNo

(* C7: with focus 'all', the line at index i has a LONG_LINE opportunity   *)
(* at line i + 1 exactly when it is longer than 100 characters and its    *)
(* trimmed content does not start with '#'.                                *)
C7_LongLine ==
    (Parsed /\ refOut # <<>> /\ focus_area = "all") =>
        \A i \in 0..(Len(SourceLines) - 1) :
            Flagged("LONG_LINE", i + 1) <=>
                (Len(SourceLines[i + 1]) > 100 /\ ~TrimmedStartsWithHash(SourceLines[i + 1]))

C7_Witness ==
    /\ Parsed /\ refOut # <<>> /\ focus_area = "all"
    /\ Len(SourceLines) >= 2
    /\ Len(SourceLines[1]) = 101 /\ Flagged("LONG_LINE", 1)
    /\ Len(SourceLines[2]) = 101 /\ TrimmedStartsWithHash(SourceLines[2])
    /\ ~Flagged("LONG_LINE", 2)

(* C8: stringConcatIssues holds exactly one finding for each += of a      *)
(* literal string that lies inside at least one loop, and none for one    *)
(* that lies outside every loop.                                           *)
C8_OneFindingPerOccurrence ==
    (Parsed /\ perfOut # <<>>) =>
        \A c \in 1..Len(file.tree) :
            IsStringConcat(file.tree, c) =>
                Len(SelectSeq(perfOut[1].stringConcatIssues,
                      LAMBDA x : x.line = file.tree[c].lineno))
                    = IF EnclosingLoops(file.tree, c) # {} THEN 1 ELSE 0

(* The integer tokens of three or more digits of a line, as <<first,      *)
(* last>> positions: a whole run of digits with no letter, digit or       *)
(* underscore on either side.                                              *)
WordChars == {"a", "b", "x", "_", "0", "1", "2", "3", "4", "5", "6", "7", "8", "9"}
DigitChars == {"0", "1", "2", "3", "4", "5", "6", "7", "8", "9"}

Tokens(line) ==
    {<<i, j>> \in (1..Len(line)) \X (1..Len(line)) :
        /\ j - i + 1 >= 3
        /\ \A k \in i..j : line[k] \in DigitChars
        /\ i = 1 \/ line[i - 1] \notin WordChars
        /\ j = Len(line) \/ line[j + 1] \notin WordChars}

LeftmostToken(line) == CHOOSE tk \in Tokens(line) : \A other \in Tokens(line) : tk[1] <= other[1]

TokenValue(line, tk) == ToInt(SubSeq(line, tk[1], tk[2]))

MagicAt(lineNo) ==
    SelectSeq(refOut[1].opportunities,
              LAMBDA o : o.type = "MAGIC_NUMBER" /\ o.line = lineNo)

(* C9: with focus 'all', a line has at most one MAGIC_NUMBER opportunity; *)
(* it has one exactly when it is not a comment line and the value of its  *)
(* leftmost integer token of three or more digits is outside {0, 1, -1,   *)
(* 2, 10, 100, 1000}, and the opportunity is for that value.               *)
C9_LeftmostTokenDecides ==
    (Parsed /\ refOut # <<>> /\ focus_area = "all") =>
        \A i \in 1..Len(SourceLines) :
            LET line == SourceLines[i]
                due == /\ ~TrimmedStartsWithHash(line)
                       /\ Tokens(line) # {}
                       /\ TokenValue(line, LeftmostToken(line))
                              \notin {0, 1, -1, 2, 10, 100, 1000}
            IN  /\ Len(MagicAt(i)) = IF due THEN 1 ELSE 0
                /\ due => MagicAt(i)[1].amount = TokenValue(line, LeftmostToken(line))

C9_Witness ==
    /\ Parsed /\ refOut # <<>> /\ focus_area = "all"
    /\ \E i \in 1..Len(SourceLines) :
           /\ Cardinality(Tokens(SourceLines[i])) = 2
           /\ TokenValue(SourceLines[i], LeftmostToken(SourceLines[i])) = 100
           /\ \E tk \in Tokens(SourceLines[i]) : TokenValue(SourceLines[i], tk) = 111
           /\ MagicAt(i) = <<>>

(* C10: in every refactoring report totalOpportunities is the length of   *)
(* the list and the sum of the breakdown; high is 0, medium counts the    *)
(* LONG_FUNCTION and LONG_PARAMETER_LIST entries, low the LONG_LINE and   *)
(* MAGIC_NUMBER entries.                                                   *)
C10_Totals ==
    refOut # <<>> =>
        LET r == refOut[1]
            ofTypes(S) == Cardinality({k \in 1..Len(r.opportunities) :
                                           r.opportunities[k].type \in S})
        IN  /\ r.totalOpportunities = Len(r.opportunities)
            /\ r.totalOpportunities = r.priorityBreakdown.high + r.priorityBreakdown.medium
                                          + r.priorityBreakdown.low
            /\ r.priorityBreakdown.high = 0
            /\ r.priorityBreakdown.medium = ofTypes({"LONG_FUNCTION", "LONG_PARAMETER_LIST"})
            /\ r.priorityBreakdown.low = ofTypes({"LONG_LINE", "MAGIC_NUMBER"})

C10_Witness ==
    /\ Parsed /\ refOut # <<>>
    /\ focus_area = "maintainability"
    /\ refOut[1].priorityBreakdown.medium >= 2
    /\ refOut[1].priorityBreakdown.low >= 1
    /\ Len(refOut[1].opportunities) < Len(AllList)

============================================================================
